---- MODULE Spec2Model ----
(***************************************************************************)
(* Chinese Postman solver of problema_carteiro_chines.py.                  *)
(*                                                                         *)
(* A graph object is a record                                              *)
(*   nodes : sequence of the nodes, in insertion order                     *)
(*   adj   : function from unordered pairs {u, v} to the sequence of the   *)
(*           weights of the parallel edges between u and v (edge key k is  *)
(*           position k + 1; a simple Graph holds at most one)             *)
(*   multi : TRUE for nx.MultiGraph, FALSE for nx.Graph                    *)
(* Objects live in a heap and are named by references, so that "copy" and  *)
(* "the same object" are different things.                                 *)
(***************************************************************************)
EXTENDS Integers, Sequences, FiniteSets, TLC

MaxNodes == 4
MaxEdges == 6
MaxCircuitEdges == 4
MaxWeight == 1

NoNode == 0
NoRef == 0
GraphRef == 1

VARIABLES heap, start_node, pc, error, original_cost, eulerian_graph,
          added_cost, G, vertex_stack, last_vertex, circuit, result

vars == <<heap, start_node, pc, error, original_cost, eulerian_graph,
          added_cost, G, vertex_stack, last_vertex, circuit, result>>

----------------------------------------------------------------------------
(* Generic helpers *)

RECURSIVE SumSet(_, _)
SumSet(f, S) ==
    IF S = {} THEN 0
    ELSE LET x == CHOOSE y \in S : TRUE IN f[x] + SumSet(f, S \ {x})

RECURSIVE SumSeq(_)
SumSeq(s) == IF s = <<>> THEN 0 ELSE Head(s) + SumSeq(Tail(s))

Range(f) == {f[x] : x \in DOMAIN f}

PairsOf(n) == {{u, v} : u \in 1..n, v \in 1..n} \ {{u} : u \in 1..n}

----------------------------------------------------------------------------
(* Graph objects (networkx Graph / MultiGraph) *)

NodeSet(g) == Range(g.nodes)

EdgePairs(g) == {p \in DOMAIN g.adj : g.adj[p] # <<>>}

Neighbors(g, v) == {u \in NodeSet(g) : {u, v} \in EdgePairs(g)}

\* graph.degree(node): number of edge ends at the node, parallel edges counted
Degree(g, v) ==
    SumSet([u \in Neighbors(g, v) |-> Len(g.adj[{u, v}])], Neighbors(g, v))

\* graph[u][v]['weight'] of a simple graph, graph[u][v][0]['weight'] of a multigraph
Weight(g, u, v) == g.adj[{u, v}][1]

\* nodes reachable from the nodes of S
RECURSIVE Reach(_, _)
Reach(g, S) ==
    LET T == S \cup UNION {Neighbors(g, v) : v \in S}
    IN IF T = S THEN S ELSE Reach(g, T)

\* nx.has_path(graph, u, v)
HasPath(g, u, v) == v \in Reach(g, {u})

\* nx.is_connected(G), defined for a graph with at least one node
IsConnected(g) == Reach(g, {g.nodes[1]}) = NodeSet(g)

\* nx.is_eulerian(G) for an undirected graph with at least one node
IsEulerian(g) ==
    /\ \A v \in NodeSet(g) : Degree(g, v) % 2 = 0
    /\ IsConnected(g)

----------------------------------------------------------------------------
(* find_odd_degree_vertices *)

\* the test of line 9 with the parity the wrong way round
IsEvenDegree(g, v) == Degree(g, v) % 2 = 0

\* the test of line 9
IsOddDegree(g, v) == Degree(g, v) % 2 # 0

RECURSIVE FilterOdd(_, _)
FilterOdd(g, nodes) ==
    IF nodes = <<>> THEN <<>>
    ELSE IF IsOddDegree(g, Head(nodes))
         THEN <<Head(nodes)>> \o FilterOdd(g, Tail(nodes))
         ELSE FilterOdd(g, Tail(nodes))

find_odd_degree_vertices(g) == FilterOdd(g, g.nodes)

----------------------------------------------------------------------------
(* Shortest paths in the input graph (networkx, weight='weight') *)

EmptyMap == [x \in {} |-> 0]

\* Dijkstra: dist holds the final distances, seen the tentative ones
RECURSIVE DijkstraLoop(_, _, _)
DijkstraLoop(g, dist, seen) ==
    LET fringe == DOMAIN seen \ DOMAIN dist
    IN IF fringe = {} THEN dist
       ELSE LET v == CHOOSE x \in fringe : \A y \in fringe : seen[x] <= seen[y]
                d == seen[v]
                done == DOMAIN dist \cup {v}
                upd == {u \in Neighbors(g, v) \ done :
                          \/ u \notin DOMAIN seen
                          \/ d + Weight(g, v, u) < seen[u]}
                seen2 == [u \in DOMAIN seen \cup upd |->
                            IF u \in upd THEN d + Weight(g, v, u) ELSE seen[u]]
                dist2 == [u \in done |-> IF u = v THEN d ELSE dist[u]]
            IN DijkstraLoop(g, dist2, seen2)

\* the same call without weight='weight': every edge counts 1
UnweightedLength(g, u, v) ==
    DijkstraLoop([g EXCEPT !.adj = [p \in DOMAIN g.adj |->
                     IF g.adj[p] = <<>> THEN <<>> ELSE <<1>>]],
                 EmptyMap, [x \in {u} |-> 0])[v]

\* nx.shortest_path_length(graph, u, v, weight='weight'), v reachable from u
shortest_path_length(g, u, v) == DijkstraLoop(g, EmptyMap, [x \in {u} |-> 0])[v]

\* the simple paths that extend p to v
RECURSIVE PathsFrom(_, _, _)
PathsFrom(g, p, v) ==
    IF p[Len(p)] = v THEN {p}
    ELSE UNION {PathsFrom(g, Append(p, u), v) :
                  u \in Neighbors(g, p[Len(p)]) \ Range(p)}

PathWeight(g, path) ==
    SumSet([i \in 1..(Len(path) - 1) |-> Weight(g, path[i], path[i + 1])],
           1..(Len(path) - 1))

\* nx.shortest_path(graph, u, v, weight='weight') returns one path of least
\* weight; which one, among several of the same weight, is the library's
\* tie-break, so every one of them is a possible result
shortest_path(g, u, v) ==
    {p \in PathsFrom(g, <<u>>, v) : PathWeight(g, p) = shortest_path_length(g, u, v)}

----------------------------------------------------------------------------
(* add_minimum_weight_matching *)

\* path_length of line 33
path_length(g, u, v) == shortest_path_length(g, u, v)

\* complete_graph of lines 27-34: an edge for each pair of odd vertices joined
\* by a path, weighted by the length of the shortest path; u comes before v
\* in odd_vertices
CompleteGraph(g, odd) ==
    LET joined == {q \in {<<odd[i], odd[j]>> : i, j \in 1..Len(odd)} :
                     /\ \E i, j \in 1..Len(odd) : i < j /\ q = <<odd[i], odd[j]>>
                     /\ HasPath(g, q[1], q[2])}
    IN [p \in {{q[1], q[2]} : q \in joined} |->
          LET q == CHOOSE r \in joined : {r[1], r[2]} = p
          IN path_length(g, q[1], q[2])]

\* the sets of pairwise disjoint edges among E
RECURSIVE Matchings(_)
Matchings(E) ==
    IF E = {} THEN {{}}
    ELSE LET e == CHOOSE x \in E : TRUE
         IN Matchings(E \ {e}) \cup
            {m \cup {e} : m \in Matchings({f \in E : f \cap e = {}})}

\* nx.max_weight_matching(K, maxcardinality=True): a matching of greatest
\* weight among those of greatest cardinality; every such matching is a
\* possible result
MaxWeightMatching(K) ==
    LET all == Matchings(DOMAIN K)
        card == {m \in all : \A o \in all : Cardinality(o) <= Cardinality(m)}
    IN {m \in card : \A o \in card : SumSet(K, o) <= SumSet(K, m)}

\* nx.algorithms.matching.min_weight_matching(K) of line 37: the weights are
\* turned into (1 + max weight) - weight and the maximum-weight matching of
\* greatest cardinality is taken
MinWeightMatching(K) ==
    IF DOMAIN K = {} THEN MaxWeightMatching(K)
    ELSE LET max_weight == 1 + (CHOOSE w \in Range(K) : \A x \in Range(K) : x <= w)
         IN MaxWeightMatching([p \in DOMAIN K |-> max_weight - K[p]])

\* graph.edges(): each edge once, from the node that comes first; nodes and
\* neighbours are visited in insertion order, taken here to be the node order
RECURSIVE EdgesFrom(_, _, _)
EdgesFrom(g, i, j) ==
    IF i > Len(g.nodes) THEN <<>>
    ELSE IF j > Len(g.nodes) THEN EdgesFrom(g, i + 1, i + 2)
    ELSE (IF {g.nodes[i], g.nodes[j]} \in EdgePairs(g)
          THEN <<<<g.nodes[i], g.nodes[j]>>>> ELSE <<>>)
         \o EdgesFrom(g, i, j + 1)

graph_edges(g) == EdgesFrom(g, 1, 2)

\* MultiGraph.add_edge(u, v, weight=w): new nodes are appended, the edge gets
\* the next key
AddEdge(mg, u, v, w) ==
    LET n1 == IF u \in Range(mg.nodes) THEN mg.nodes ELSE Append(mg.nodes, u)
        n2 == IF v \in Range(n1) THEN n1 ELSE Append(n1, v)
    IN [mg EXCEPT !.nodes = n2, !.adj[{u, v}] = Append(@, w)]

\* lines 40-44: a new MultiGraph holding the original edges
RECURSIVE AddOriginalEdges(_, _, _)
AddOriginalEdges(mg, g, es) ==
    IF es = <<>> THEN mg
    ELSE AddOriginalEdges(AddEdge(mg, Head(es)[1], Head(es)[2],
                                  Weight(g, Head(es)[1], Head(es)[2])),
                          g, Tail(es))

NewMultiGraph(g) ==
    AddOriginalEdges([nodes |-> <<>>, adj |-> [p \in DOMAIN g.adj |-> <<>>],
                      multi |-> TRUE], g, graph_edges(g))

\* range(len(path) - 2): the last edge of the path is left out
PathStepsShort(path) == 1..(Len(path) - 2)

\* range(len(path) - 1) of line 53
PathSteps(path) == 1..(Len(path) - 1)

\* lines 53-59: duplicate every edge of the path; st = [graph, added]
RECURSIVE DuplicatePath(_, _, _, _)
DuplicatePath(st, g, path, steps) ==
    IF steps = {} THEN st
    ELSE LET i == CHOOSE x \in steps : \A y \in steps : x <= y
             weight == Weight(g, path[i], path[i + 1])
         IN DuplicatePath([graph |-> AddEdge(st.graph, path[i], path[i + 1], weight),
                           added |-> st.added + weight],
                          g, path, steps \ {i})

\* lines 47-59: the possible outcomes of the loop over the matching
RECURSIVE AddMatchingEdges(_, _, _)
AddMatchingEdges(st, g, matching) ==
    IF matching = {} THEN {st}
    ELSE LET m == CHOOSE x \in matching : TRUE
             u == CHOOSE x \in m : TRUE
             v == CHOOSE x \in m : x # u
         IN UNION {AddMatchingEdges(DuplicatePath(st, g, path, PathSteps(path)),
                                    g, matching \ {m}) :
                     path \in shortest_path(g, u, v)}

\* the sum taken over every node's neighbours: each edge is met from both ends
SumEachEdgeTwice(g) ==
    SumSet([v \in NodeSet(g) |->
              SumSet([u \in Neighbors(g, v) |-> Weight(g, v, u)], Neighbors(g, v))],
           NodeSet(g))

\* line 80
OriginalCost(g) ==
    SumSeq([i \in 1..Len(graph_edges(g)) |->
              Weight(g, graph_edges(g)[i][1], graph_edges(g)[i][2])])

\* "return graph, 0": the graph itself instead of a copy
SameObject(h, ref) == [heap |-> h, ref |-> ref]

\* graph.copy() of line 24: a new object with the same nodes and edges
GraphCopy(h, ref) == [heap |-> Append(h, h[ref]), ref |-> Len(h) + 1]

----------------------------------------------------------------------------
(* nx.eulerian_circuit *)

\* G.remove_edge(u, v) / G.remove_edge(u, v, key) with the first key left
RemoveEdge(g, u, v) == [g EXCEPT !.adj[{u, v}] = Tail(@)]

\* start_node ignored: always the first node
FirstNode(g, start) == g.nodes[1]

\* lines 68-69
SourceNode(g, start) == IF start = NoNode THEN g.nodes[1] ELSE start

\* the sum over the parallel edges, as draw_graph labels them (lines 111-115)
SumOfParallelWeights(g, u, v) == SumSeq(g.adj[{u, v}])

\* line 92: key 0 of a MultiGraph, the only edge of a Graph
CircuitWeight(g, u, v) ==
    IF g.multi THEN g.adj[{u, v}][1] ELSE g.adj[{u, v}][1]

\* the loop of lines 90-93 stopping one entry early
FormattedAllButLast(g, c) ==
    [i \in 1..(Len(c) - 1) |-> <<c[i][1], c[i][2], CircuitWeight(g, c[i][1], c[i][2])>>]

\* lines 89-93
FormattedCircuit(g, c) ==
    [i \in 1..Len(c) |-> <<c[i][1], c[i][2], CircuitWeight(g, c[i][1], c[i][2])>>]

----------------------------------------------------------------------------
(* The solver as a state machine *)

\* A simple weighted graph on the nodes 1..n with the edge set E and weights w
SimpleGraph(n, E, w) ==
    [nodes |-> [i \in 1..n |-> i],
     adj   |-> [p \in PairsOf(n) |-> IF p \in E THEN <<w[p]>> ELSE <<>>],
     multi |-> FALSE]

\* The solver looks at a node only to compare it with another, so of the graphs
\* that differ in the names of their nodes alone it is enough to take those
\* whose nodes are numbered by falling degree (isolated nodes last)
ByFallingDegree(n, E) ==
    \A u \in 1..(n - 1) :
        Cardinality({p \in E : u \in p}) >= Cardinality({p \in E : u + 1 \in p})

\* Inputs are drawn with up to MaxNodes nodes, a bounded number of edges and
\* integer weights 0..MaxWeight

InitLocals ==
    /\ error = ""
    /\ original_cost = 0
    /\ eulerian_graph = NoRef
    /\ added_cost = 0
    /\ G = NoRef
    /\ vertex_stack = <<>>
    /\ last_vertex = NoNode
    /\ circuit = <<>>
    /\ result = [total_cost |-> 0, circuit |-> <<>>]

\* a call solve_chinese_postman(graph, start_node)
Init ==
    /\ \E n \in 0..MaxNodes :
       \E E \in SUBSET PairsOf(n) :
          /\ Cardinality(E) <= MaxCircuitEdges
          /\ ByFallingDegree(n, E)
          /\ \E w \in [E -> 0..MaxWeight] : heap = <<SimpleGraph(n, E, w)>>
          /\ start_node \in {NoNode} \cup 1..n
    /\ pc = "solve"
    /\ InitLocals

\* a call add_minimum_weight_matching(graph), followed by the test of
\* find_eulerian_circuit on what it returns
InitMatching ==
    /\ \E n \in 0..MaxNodes :
       \E E \in SUBSET PairsOf(n) :
          /\ Cardinality(E) <= MaxEdges
          /\ ByFallingDegree(n, E)
          /\ \E w \in [E -> 0..MaxWeight] : heap = <<SimpleGraph(n, E, w)>>
    /\ start_node = NoNode
    /\ pc = "add_matching"
    /\ InitLocals

\* line 80
SolveBegin ==
    /\ pc = "solve"
    /\ original_cost' = OriginalCost(heap[GraphRef])
    /\ pc' = "add_matching"
    /\ UNCHANGED <<heap, start_node, error, eulerian_graph, added_cost, G,
                   vertex_stack, last_vertex, circuit, result>>

\* lines 13-61, called at line 83
AddMinimumWeightMatching ==
    /\ pc = "add_matching"
    /\ LET graph == heap[GraphRef]
           odd_vertices == find_odd_degree_vertices(graph)
       IN IF odd_vertices = <<>>
          THEN LET c == GraphCopy(heap, GraphRef)
               IN /\ heap' = c.heap
                  /\ eulerian_graph' = c.ref
                  /\ added_cost' = 0
          ELSE \E matching \in MinWeightMatching(CompleteGraph(graph, odd_vertices)) :
               \E st \in AddMatchingEdges([graph |-> NewMultiGraph(graph), added |-> 0],
                                          graph, matching) :
                  /\ heap' = Append(heap, st.graph)
                  /\ eulerian_graph' = Len(heap) + 1
                  /\ added_cost' = st.added
    /\ pc' = "find_circuit"
    /\ UNCHANGED <<start_node, error, original_cost, G, vertex_stack,
                   last_vertex, circuit, result>>

\* lines 63-71 up to the first step of nx.eulerian_circuit, called at line 86
FindEulerianCircuit ==
    /\ pc = "find_circuit"
    /\ LET g == heap[eulerian_graph]
       IN IF g.nodes = <<>>
          THEN \* nx.is_connected raises on the null graph
               /\ pc' = "error"
               /\ error' = "NetworkXPointlessConcept"
               /\ UNCHANGED <<heap, G, vertex_stack>>
          ELSE IF ~IsEulerian(g)
          THEN \* line 66
               /\ pc' = "error"
               /\ error' = "NetworkXError"
               /\ UNCHANGED <<heap, G, vertex_stack>>
          ELSE IF SourceNode(g, start_node) \notin NodeSet(g)
          THEN \* the library fails on a source that is no node of the graph
               /\ pc' = "error"
               /\ error' = "NodeNotInGraph"
               /\ UNCHANGED <<heap, G, vertex_stack>>
          ELSE \* nx.eulerian_circuit works on its own copy
               /\ heap' = Append(heap, g)
               /\ G' = Len(heap) + 1
               /\ vertex_stack' = <<SourceNode(g, start_node)>>
               /\ pc' = "walk"
               /\ error' = error
    /\ last_vertex' = NoNode
    /\ circuit' = <<>>
    /\ UNCHANGED <<start_node, original_cost, eulerian_graph, added_cost, result>>

\* one turn of the loop of nx.eulerian_circuit with an edge left at the top of
\* the stack: take one, remove it and push its other end.  The library takes
\* the first edge in adjacency order; that order depends on how the graph was
\* built, so every neighbour is a possible choice
CircuitPush ==
    /\ pc = "walk"
    /\ vertex_stack # <<>>
    /\ LET current_vertex == vertex_stack[Len(vertex_stack)]
       IN /\ Degree(heap[G], current_vertex) # 0
          /\ \E next_vertex \in Neighbors(heap[G], current_vertex) :
                /\ vertex_stack' = Append(vertex_stack, next_vertex)
                /\ heap' = [heap EXCEPT
                              ![G] = RemoveEdge(@, current_vertex, next_vertex)]
    /\ UNCHANGED <<start_node, pc, error, original_cost, eulerian_graph,
                   added_cost, G, last_vertex, circuit, result>>

\* one turn of the loop with no edge left at the top of the stack: yield
\* (last_vertex, current_vertex) and pop; the generator ends with the stack
CircuitPop ==
    /\ pc = "walk"
    /\ vertex_stack # <<>>
    /\ LET current_vertex == vertex_stack[Len(vertex_stack)]
       IN /\ Degree(heap[G], current_vertex) = 0
          /\ circuit' = IF last_vertex # NoNode
                        THEN Append(circuit, <<last_vertex, current_vertex>>)
                        ELSE circuit
          /\ last_vertex' = current_vertex
          /\ vertex_stack' = SubSeq(vertex_stack, 1, Len(vertex_stack) - 1)
          /\ pc' = IF Len(vertex_stack) = 1 THEN "format" ELSE "walk"
    /\ UNCHANGED <<heap, start_node, error, original_cost, eulerian_graph,
                   added_cost, G, result>>

\* lines 88-101
FormatCircuit ==
    /\ pc = "format"
    /\ result' = [total_cost |-> original_cost + added_cost,
                  circuit |-> FormattedCircuit(heap[eulerian_graph], circuit)]
    /\ pc' = "done"
    /\ UNCHANGED <<heap, start_node, error, original_cost, eulerian_graph,
                   added_cost, G, vertex_stack, last_vertex, circuit>>

Next ==
    \/ SolveBegin
    \/ AddMinimumWeightMatching
    \/ FindEulerianCircuit
    \/ CircuitPush
    \/ CircuitPop
    \/ FormatCircuit

Spec == Init /\ [][Next]_vars

NextMatching ==
    \/ AddMinimumWeightMatching
    \/ FindEulerianCircuit

SpecMatching == InitMatching /\ [][NextMatching]_vars

----------------------------------------------------------------------------
(* Notions the properties are stated with, defined without the solver's own *)
(* operators where the property is about them                               *)

InputGraph == heap[GraphRef]

InputConnected == InputGraph.nodes # <<>> /\ IsConnected(InputGraph)

InputDisconnected == InputGraph.nodes # <<>> /\ ~IsConnected(InputGraph)

InputHasEdge == EdgePairs(InputGraph) # {}

\* add_minimum_weight_matching has just returned
MatchingReturned == pc = "find_circuit"

\* number of edge ends at v, counted edge by edge
Incidences(g, v) ==
    LET at == {p \in DOMAIN g.adj : v \in p}
    IN SumSet([p \in at |-> Len(g.adj[p])], at)

OddVertices(g) == {v \in NodeSet(g) : Incidences(g, v) % 2 = 1}

\* least weight of a simple path from u to v
Distance(g, u, v) ==
    LET ws == {PathWeight(g, p) : p \in PathsFrom(g, <<u>>, v)}
    IN CHOOSE w \in ws : \A x \in ws : w <= x

\* the ways to split S into pairs
RECURSIVE PerfectPairings(_)
PerfectPairings(S) ==
    IF S = {} THEN {{}}
    ELSE LET a == CHOOSE x \in S : TRUE
         IN UNION {{m \cup {{a, b}} : m \in PerfectPairings(S \ {a, b})} :
                     b \in S \ {a}}

PairingCost(g, m) ==
    SumSet([p \in m |-> LET u == CHOOSE x \in p : TRUE
                            v == CHOOSE x \in p : x # u
                        IN Distance(g, u, v)], m)

NumberOfEdges(g) == SumSet([p \in DOMAIN g.adj |-> Len(g.adj[p])], DOMAIN g.adj)

SumOfWeights(g) == SumSet([p \in DOMAIN g.adj |-> SumSeq(g.adj[p])], DOMAIN g.adj)

Occurrences(c, p) == Cardinality({i \in 1..Len(c) : {c[i][1], c[i][2]} = p})

----------------------------------------------------------------------------
(* Properties *)

\* C1: for a connected simple input graph with an edge, the circuit returned
\* by solve_chinese_postman has, as a multiset of unordered pairs, exactly the
\* edges of the Eulerian multigraph: each pair occurs as often as it has
\* parallel edges there, every original edge is there, and the length of the
\* circuit is the number of edges of the multigraph.
C1_CircuitIsEdgeMultiset ==
    (pc = "done" /\ InputConnected /\ InputHasEdge) =>
        LET eg == heap[eulerian_graph]
        IN /\ Len(result.circuit) = NumberOfEdges(eg)
           /\ \A p \in DOMAIN eg.adj :
                 /\ Occurrences(result.circuit, p) = Len(eg.adj[p])
                 /\ InputGraph.adj[p] # <<>> => Len(eg.adj[p]) >= 1

C1_Witness ==
    /\ pc = "done" /\ InputConnected
    /\ Len(result.circuit) >= 6
    /\ \E p \in DOMAIN InputGraph.adj : Len(heap[eulerian_graph].adj[p]) = 2

\* C2: for a connected input graph with an edge and a start_node of the
\* graph, the circuit starts at start_node, each triple ends where the next
\* begins, and the last triple ends at start_node.
C2_ClosedWalkFromStart ==
    (pc = "done" /\ InputConnected /\ InputHasEdge /\ start_node # NoNode) =>
        LET c == result.circuit
        IN /\ Len(c) >= 1
           /\ c[1][1] = start_node
           /\ \A i \in 1..(Len(c) - 1) : c[i][2] = c[i + 1][1]
           /\ c[Len(c)][2] = start_node

C2_Witness ==
    /\ pc = "done" /\ InputConnected
    /\ start_node # NoNode
    /\ start_node # heap[eulerian_graph].nodes[1]
    /\ Len(result.circuit) >= 5
    /\ \E i \in 2..(Len(result.circuit) - 1) : result.circuit[i][2] = start_node

\* C3: for a connected input graph, added_weight is the least total distance
\* of a perfect pairing of the odd-degree vertices: some pairing costs exactly
\* added_weight and none costs less.
C3_AddedWeightIsMinimumPairing ==
    (MatchingReturned /\ InputConnected) =>
        LET pairings == PerfectPairings(OddVertices(InputGraph))
        IN /\ \E m \in pairings : PairingCost(InputGraph, m) = added_cost
           /\ \A m \in pairings : added_cost <= PairingCost(InputGraph, m)

C3_Witness ==
    /\ pc = "find_circuit" /\ InputConnected
    /\ Cardinality(OddVertices(InputGraph)) = 4
    /\ \E m \in PerfectPairings(OddVertices(InputGraph)) :
          added_cost < PairingCost(InputGraph, m)
    /\ added_cost > 0

\* C4: for a connected input graph, the graph add_minimum_weight_matching
\* returns has only vertices of even degree, parallel edges counted, and is
\* connected, and find_eulerian_circuit does not raise.
C4_EulerizedIsEulerian ==
    /\ (MatchingReturned /\ InputConnected) =>
          LET eg == heap[eulerian_graph]
          IN /\ \A v \in NodeSet(eg) : Incidences(eg, v) % 2 = 0
             /\ NodeSet(eg) = NodeSet(InputGraph)
             /\ Reach(eg, {eg.nodes[1]}) = NodeSet(eg)
    /\ pc = "error" => ~InputConnected

C4_Witness ==
    /\ pc = "walk" /\ InputConnected
    /\ Cardinality(OddVertices(InputGraph)) = 4
    /\ \E u, v \in NodeSet(InputGraph) :
          /\ u \in OddVertices(InputGraph) /\ v \in OddVertices(InputGraph)
          /\ u # v /\ InputGraph.adj[{u, v}] = <<>>
          /\ \E x \in NodeSet(InputGraph) :
                /\ Len(heap[eulerian_graph].adj[{u, x}]) = 2
                /\ Len(heap[eulerian_graph].adj[{x, v}]) = 2

\* C5: for a connected input graph whose vertices all have even degree,
\* add_minimum_weight_matching adds no edge and returns added_weight 0, and
\* solve_chinese_postman returns the sum of the edge weights as total_cost
\* and a circuit with as many entries as the graph has edges; the 4-cycle
\* with unit weights gives total_cost 4 and a circuit of length 4.
C5_AlreadyEulerian ==
    (/\ pc \in {"find_circuit", "error", "done"}
     /\ InputConnected
     /\ OddVertices(InputGraph) = {}) =>
        /\ pc # "error"
        /\ MatchingReturned =>
              /\ added_cost = 0
              /\ heap[eulerian_graph].adj = InputGraph.adj
        /\ pc = "done" =>
              /\ result.total_cost = SumOfWeights(InputGraph)
              /\ Len(result.circuit) = Cardinality(EdgePairs(InputGraph))
              /\ (/\ Len(InputGraph.nodes) = 4
                  /\ \A p \in DOMAIN InputGraph.adj :
                        InputGraph.adj[p] = IF p \in {{1, 2}, {2, 3}, {3, 4}, {4, 1}}
                                            THEN <<1>> ELSE <<>>)
                 => (result.total_cost = 4 /\ Len(result.circuit) = 4)

C5_Witness ==
    /\ pc = "done"
    /\ Len(InputGraph.nodes) = 4
    /\ \A p \in DOMAIN InputGraph.adj :
          InputGraph.adj[p] = IF p \in {{1, 2}, {2, 3}, {3, 4}, {4, 1}}
                              THEN <<1>> ELSE <<>>
    /\ result.total_cost = 4

\* C6: for an input graph that is not connected, an isolated vertex being a
\* component too, solve_chinese_postman ends in an error and returns no
\* route.
C6_DisconnectedNeverReturns == InputDisconnected => pc # "done"

\* C7: for an input graph without edges, with or without vertices,
\* solve_chinese_postman ends in an error and returns no Solution.
C7_NoEdgesNeverReturns == ~InputHasEdge => pc # "done"

\* C8: no step of the solver changes the input graph, and the Eulerian graph
\* it returns is never the input object itself.
C8_InputUntouched ==
    [][heap'[GraphRef] = heap[GraphRef] /\ eulerian_graph' # GraphRef]_vars

C8_Witness ==
    /\ pc = "done"
    /\ OddVertices(InputGraph) = {}
    /\ heap[eulerian_graph] = InputGraph
    /\ InputHasEdge
    /\ EdgePairs(heap[G]) = {}

\* C9: find_odd_degree_vertices returns exactly the vertices of odd degree,
\* each once, and an even number of them, for any graph.
C9_OddVerticesEvenCount ==
    LET odd == find_odd_degree_vertices(InputGraph)
    IN /\ Range(odd) = OddVertices(InputGraph)
       /\ \A i, j \in 1..Len(odd) : odd[i] = odd[j] => i = j
       /\ Len(odd) % 2 = 0

C9_Witness ==
    /\ pc = "find_circuit"
    /\ Len(find_odd_degree_vertices(InputGraph)) = 4
    /\ InputDisconnected

\* C10: for a connected simple input graph with an edge, the weights of the
\* circuit's triples add up to total_cost, total_cost is the sum of the
\* original weights plus added_weight, and each triple carries the weight of
\* the input graph's edge between its two vertices.
C10_CircuitWeightsAddUp ==
    (pc = "done" /\ InputConnected /\ InputHasEdge) =>
        LET c == result.circuit
        IN /\ SumSeq([i \in 1..Len(c) |-> c[i][3]]) = result.total_cost
           /\ result.total_cost = SumOfWeights(InputGraph) + added_cost
           /\ \A i \in 1..Len(c) :
                 /\ InputGraph.adj[{c[i][1], c[i][2]}] # <<>>
                 /\ c[i][3] = InputGraph.adj[{c[i][1], c[i][2]}][1]

C10_Witness ==
    /\ pc = "done" /\ InputConnected
    /\ added_cost >= 2
    /\ \E i, j \in 1..Len(result.circuit) :
          /\ i # j
          /\ {result.circuit[i][1], result.circuit[i][2]}
               = {result.circuit[j][1], result.circuit[j][2]}
          /\ result.circuit[i][3] = 1
    /\ \E i \in 1..Len(result.circuit) : result.circuit[i][3] = 0

====
